---- MODULE Spec2Model ----
(***************************************************************************)
(* OperatableStateMachine of flexbe_core: a tree of leaf states and nested *)
(* containers with an autonomy gate, a fail-safe execution wrapper and the *)
(* mirror synchronisation protocol.                                        *)
(*                                                                         *)
(* A node is identified by a number; node 0 is the root container.  The    *)
(* label of a child is its node number, its name is Name(n).  Python's     *)
(* None is "None" for strings, NoNode for a state reference and NoneId for *)
(* the behavior id.  A raised exception is the name of its class.          *)
(***************************************************************************)
EXTENDS Integers, Sequences, FiniteSets, TLC

\* ------------------------------------------------------------------ bounds
\* number of nodes of a tree, the root included
MaxNodes == 3
\* autonomy commands carry a level in 0 .. MaxLevel or NoControlLevel;
\* MaxLevel is also the highest required level an autonomy map registers
MaxLevel == 1

\* ------------------------------------------------------- program constants
\* class attribute: autonomy_level = 3
InitialAutonomyLevel == 3
\* confirm: remote control is enabled unless the level is 255
NoControlLevel == 255

Nodes == 0 .. (MaxNodes - 1)
Root == 0
NoNode == MaxNodes
NoneId == 0 - 1
BehIds == {7}
Levels == (0 .. MaxLevel) \cup {InitialAutonomyLevel, NoControlLevel}

VARIABLES
    parent,               \* the behavior being built: parent[n] of every non-root node
    pc,                   \* "build", "running" (confirmed) or "destroyed"
    states,               \* _states of every container: its children, in order of add
    autonomy,             \* _autonomy of every container: label -> autonomy argument
    id,                   \* self.id of the root
    autonomy_level,       \* OperatableStateMachine.autonomy_level (process-wide)
    is_controlled,        \* _is_controlled of every node
    current_state,        \* _current_state of every container
    last_exception,       \* _last_exception of every container
    inner_sync_request,   \* _inner_sync_request of the root
    last_deep_state_path, \* _last_deep_state_path of the root
    subscribed,           \* the subscriptions of the process: topic and inst_id
    stops,                \* how often on_stop of every node was invoked
    preempt,              \* PreemptableState.preempt: a stop was requested
    entering,             \* _entering of every node
    sync_drain,           \* the call of process_sync_request in flight, if any
    unanswered,           \* a sync request no drain has read the active path for yet
    out                   \* the last call: what it returned, raised and published

vars == <<parent, pc, states, autonomy, id, autonomy_level, is_controlled,
          current_state, last_exception, inner_sync_request,
          last_deep_state_path, subscribed, stops, preempt, entering,
          sync_drain, unanswered, out>>

\* ------------------------------------------------------------ the tree
\* every shape with MaxNodes nodes: a node's parent was created before it
Shapes == {p \in [1 .. (MaxNodes - 1) -> Nodes] : \A n \in DOMAIN p : p[n] < n}

\* isinstance(state, OperatableStateMachine): the nodes that hold children
IsContainer(n) == n = Root \/ \E m \in DOMAIN parent : parent[m] = n

Containers == {n \in Nodes : IsContainer(n)}

\* state.outcomes: declared at construction
Outcomes(n) == IF IsContainer(n) THEN <<"finished", "failed">> ELSE <<"done", "failed">>

SeqToSet(s) == {s[i] : i \in DOMAIN s}

\* state.name: "Café_Wait_<n>" as code points
Name(n) == <<67, 97, 102, 233, 95, 87, 97, 105, 116, 95, 48 + n>>

\* state.path: the labels of the ancestors joined by "/" (the root's is empty)
RECURSIVE Path(_)
Path(n) == IF n = Root THEN <<>> ELSE Path(parent[n]) \o <<47>> \o Name(n)

\* the siblings of n added after it
LaterSiblings(n) == {m \in DOMAIN parent : parent[m] = parent[n] /\ m > n}

\* the transitions argument of add: the first outcome leads to the next
\* sibling, or leaves the container when there is none; "failed" leaves it
Target(n, o) ==
    IF o = Outcomes(n)[1] /\ LaterSiblings(n) # {}
    THEN [state |-> CHOOSE m \in LaterSiblings(n) : \A k \in LaterSiblings(n) : m <= k,
          outcome |-> "None"]
    ELSE [state |-> NoNode, outcome |-> IF o = Outcomes(n)[1] THEN "finished" ELSE "failed"]

\* the autonomy argument of add: omitted (None), a map of every outcome, or a
\* map that lacks the second outcome
NoneArg == [none |-> TRUE, d |-> <<>>]
FullArg(n) == [none |-> FALSE,
               d |-> (Outcomes(n)[1] :> 0) @@ (Outcomes(n)[2] :> MaxLevel)]
PartialArg(n) == [none |-> FALSE, d |-> (Outcomes(n)[1] :> 0)]
ArgKinds == {"omitted", "full", "partial"}
AutonomyArg(n, kind) ==
    CASE kind = "omitted" -> NoneArg
      [] kind = "full" -> FullArg(n)
      [] kind = "partial" -> PartialArg(n)

Registered == UNION {SeqToSet(states[c]) : c \in Nodes}

\* a 32-bit word as its two 16-bit halves
Word(hi, lo) == [hi |-> hi, lo |-> lo]
Zero == Word(0, 0)

NoOut == [op |-> "none", args |-> <<>>, raised |-> "None", outcome |-> "None",
          allowed |-> FALSE, behavior_id |-> 0, checksum |-> Zero, pubs |-> <<>>,
          calls |-> <<>>]

\* the topics confirm subscribes to
CommandTopics == {"flexbe/command/autonomy", "flexbe/command/sync",
                  "flexbe/command/attach", "flexbe/request_mirror_structure"}

\* subscribe(topic, ..., inst_id=id(self)): an entry of the subscriber cache
\* of the process; id(self) of the root is Root, OtherInstance is the identity
\* of another behavior of the same process
Subscription(topic, inst_id) == [topic |-> topic, inst_id |-> inst_id]
OtherInstance == NoNode

\* no call of process_sync_request is in flight
NoDrain == [pc |-> "idle", checksum |-> Zero, stale |-> FALSE]

\* ------------------------------------------------------------ construction
Init ==
    /\ parent \in Shapes
    /\ pc = "build"
    /\ states = [n \in Nodes |-> <<>>]
    /\ autonomy = [n \in Nodes |-> <<>>]
    /\ id = NoneId
    /\ autonomy_level \in {InitialAutonomyLevel, NoControlLevel}
    /\ is_controlled = [n \in Nodes |-> FALSE]
    /\ current_state = [n \in Nodes |-> NoNode]
    /\ last_exception = [n \in Nodes |-> "None"]
    /\ inner_sync_request = FALSE
    /\ last_deep_state_path = [none |-> TRUE, s |-> <<>>]
    /\ subscribed = {Subscription(t, OtherInstance) : t \in CommandTopics}
    /\ stops = [n \in Nodes |-> 0]
    /\ preempt = FALSE
    /\ entering = [n \in Nodes |-> TRUE]
    /\ sync_drain = NoDrain
    /\ unanswered = FALSE
    /\ out = NoOut

\* add(label, state, transitions, autonomy): the child is registered under the
\* opened container and the autonomy argument is stored as given
add(n, kind) ==
    /\ pc = "build"
    /\ n \in DOMAIN parent
    /\ n \notin Registered
    /\ \A m \in DOMAIN parent : m < n => m \in Registered
    /\ states' = [states EXCEPT ![parent[n]] = Append(@, n)]
    /\ autonomy' = [autonomy EXCEPT ![parent[n]] = (n :> AutonomyArg(n, kind)) @@ @]
    /\ out' = [NoOut EXCEPT !.op = "add"]
    /\ UNCHANGED <<parent, pc, id, autonomy_level, is_controlled, current_state,
                   last_exception, inner_sync_request, last_deep_state_path,
                   subscribed, stops>>
    /\ UNCHANGED <<preempt, entering, sync_drain, unanswered>>

\* confirm(name, beh_id): identity, subscriptions to the four command topics,
\* remote control unless the level is 255, then the start notification

\* the subtree of n: n and every node below it
RECURSIVE Subtree(_)
Subtree(n) == {n} \cup UNION {Subtree(m) : m \in {k \in DOMAIN parent : parent[k] = n}}

\* _enable_ros_control / _disable_ros_control of a node: the node and,
\* for a container, every state below it
SetControl(ctl, n, v) == [m \in Nodes |-> IF m \in Subtree(n) THEN v ELSE ctl[m]]

confirm(beh_id) ==
    /\ pc = "build"
    /\ Registered = DOMAIN parent
    /\ pc' = "running"
    /\ id' = beh_id
    /\ subscribed' = subscribed \cup {Subscription(t, Root) : t \in CommandTopics}
    /\ is_controlled' = IF autonomy_level # NoControlLevel
                        THEN SetControl(is_controlled, Root, TRUE)
                        ELSE is_controlled
    /\ out' = [NoOut EXCEPT !.op = "confirm"]
    /\ UNCHANGED <<parent, states, autonomy, autonomy_level, current_state,
                   last_exception, inner_sync_request, last_deep_state_path, stops>>
    /\ UNCHANGED <<preempt, entering, sync_drain, unanswered>>

\* -------------------------------------------------------------- the gate
\* dict.get(outcome, default)
Get(d, key, default) == IF key \in DOMAIN d THEN d[key] ELSE default

IsAllowedAtBelow(c, label, outcome, level) ==
    IF label \notin DOMAIN autonomy[c] THEN [raised |-> "KeyError", value |-> FALSE]
    ELSE IF autonomy[c][label].none THEN [raised |-> "AttributeError", value |-> FALSE]
    ELSE [raised |-> "None",
          value |-> Get(autonomy[c][label].d, outcome, 0 - 1) <= level]

IsAllowedAtAbove(c, label, outcome, level) ==
    IF label \notin DOMAIN autonomy[c] THEN [raised |-> "KeyError", value |-> FALSE]
    ELSE IF autonomy[c][label].none THEN [raised |-> "AttributeError", value |-> FALSE]
    ELSE [raised |-> "None",
          value |-> Get(autonomy[c][label].d, outcome, 0 - 1) > level]

IsAllowedAtConservative(c, label, outcome, level) ==
    IF label \notin DOMAIN autonomy[c] THEN [raised |-> "KeyError", value |-> FALSE]
    ELSE IF autonomy[c][label].none THEN [raised |-> "AttributeError", value |-> FALSE]
    ELSE [raised |-> "None",
          value |-> /\ outcome \in DOMAIN autonomy[c][label].d
                    /\ autonomy[c][label].d[outcome] < level]

\* self._autonomy[label].get(outcome, -1) < level, for container c
IsAllowedAt(c, label, outcome, level) ==
    IF label \notin DOMAIN autonomy[c] THEN [raised |-> "KeyError", value |-> FALSE]
    ELSE IF autonomy[c][label].none THEN [raised |-> "AttributeError", value |-> FALSE]
    ELSE [raised |-> "None",
          value |-> Get(autonomy[c][label].d, outcome, 0 - 1) < level]

\* is_transition_allowed(label, outcome) of container c
is_transition_allowed(c, label, outcome) == IsAllowedAt(c, label, outcome, autonomy_level)

\* the labels and outcomes the gate is asked about: every child, a label no
\* container knows, every declared outcome and an undeclared one
GateLabels == (Nodes \ {Root}) \cup {NoNode}
GateOutcomes == {"done", "finished", "failed", "undeclared"}

\* a call of is_transition_allowed(label, outcome) on container c
is_transition_allowed_call(c, label, outcome) ==
    /\ pc = "running"
    /\ c \in Containers
    /\ LET r == is_transition_allowed(c, label, outcome)
       IN out' = [NoOut EXCEPT !.op = "is_transition_allowed",
                               !.args = <<c, label, outcome>>,
                               !.raised = r.raised, !.allowed = r.value]
    /\ UNCHANGED <<parent, pc, states, autonomy, id, autonomy_level, is_controlled,
                   current_state, last_exception, inner_sync_request,
                   last_deep_state_path, subscribed, stops>>
    /\ UNCHANGED <<preempt, entering, sync_drain, unanswered>>

\* ------------------------------------------------------------- execution
\* what the active leaf does in one step: still running, an outcome, or a failure
LeafResults == {[raised |-> "None", outcome |-> o] : o \in {"None", "done", "failed"}}
               \cup {[raised |-> "RuntimeError", outcome |-> "None"]}

\* current_state_label: the name of the active child, StateMachineError without one
current_state_label(cur, c) ==
    IF cur[c] = NoNode THEN [raised |-> "StateMachineError", label |-> NoNode]
    ELSE [raised |-> "None", label |-> cur[c]]

\* execute of an operatable leaf: the outcome of its step, held back when the
\* leaf is remotely controlled and the gate of its container denies it
ExecLeaf(n, res) ==
    IF res.raised # "None" \/ res.outcome = "None" \/ ~is_controlled[n] THEN res
    ELSE LET g == is_transition_allowed(parent[n], n, res.outcome)
         IN IF g.raised # "None" THEN [raised |-> g.raised, outcome |-> "None"]
            ELSE IF g.value THEN res
            ELSE [raised |-> "None", outcome |-> "None"]

\* execute of a container without an active child: the initial state is entered
Entered(c, m) ==
    [cur |-> IF m.cur[c] = NoNode THEN [m.cur EXCEPT ![c] = states[c][1]] ELSE m.cur,
     exc |-> m.exc]

RECURSIVE ExecuteCurrentState(_, _, _), SuperExecuteCurrentState(_, _, _), ExecNode(_, _, _)

\* execute of node n: a container without an active child enters its initial state
ExecNode(n, m, res) ==
    IF ~IsContainer(n)
    THEN LET r == ExecLeaf(n, res)
         IN [cur |-> m.cur, exc |-> m.exc, raised |-> r.raised, outcome |-> r.outcome]
    ELSE ExecuteCurrentState(n, Entered(n, m), res)

\* super()._execute_current_state(): one step of the active child, then the
\* transition its outcome selects
SuperExecuteCurrentState(c, m, res) ==
    IF m.cur[c] = NoNode
    THEN [cur |-> m.cur, exc |-> m.exc, raised |-> "AttributeError", outcome |-> "None"]
    ELSE LET k == m.cur[c]
             r == ExecNode(k, m, res)
             t == Target(k, r.outcome)
         IN IF r.raised # "None" \/ r.outcome = "None" THEN r
            ELSE IF t.state # NoNode
            THEN [r EXCEPT !.cur[c] = t.state, !.outcome = "None"]
            ELSE [r EXCEPT !.cur[c] = NoNode, !.outcome = t.outcome]

ExecuteCurrentStateNoReset(c, m, res) ==
    LET r == SuperExecuteCurrentState(c, m, res)
        l == current_state_label(r.cur, c)
    IN IF r.raised = "None" THEN r
       ELSE [cur |-> r.cur, exc |-> [r.exc EXCEPT ![c] = r.raised],
             raised |-> l.raised, outcome |-> "None"]

\* _execute_current_state of container c: the failure of the step is kept in
\* _last_exception and logged with the label of the active child
ExecuteCurrentState(c, m, res) ==
    LET r == SuperExecuteCurrentState(c, m, res)
        l == current_state_label(r.cur, c)
    IN IF r.raised = "None"
       THEN [r EXCEPT !.exc[c] = "None"]
       ELSE [cur |-> r.cur, exc |-> [r.exc EXCEPT ![c] = r.raised],
             raised |-> l.raised, outcome |-> "None"]

\* get_deep_state: follow the active children down to the active leaf
RECURSIVE DeepState(_, _)
DeepState(cur, c) ==
    IF cur[c] = NoNode THEN NoNode
    ELSE IF IsContainer(cur[c]) THEN DeepState(cur, cur[c])
    ELSE cur[c]

NonePath == [none |-> TRUE, s |-> <<>>]
PathOf(n) == IF n = NoNode THEN NonePath ELSE [none |-> FALSE, s |-> Path(n)]

execute_current_state_clears_sync(res) ==
    /\ pc = "running"
    /\ sync_drain.pc = "idle"
    /\ current_state[Root] = NoNode
    /\ LET r == ExecuteCurrentState(Root, [cur |-> current_state, exc |-> last_exception], res)
       IN /\ current_state' = r.cur
          /\ last_exception' = r.exc
          /\ out' = [NoOut EXCEPT !.op = "_execute_current_state",
                                  !.raised = r.raised, !.outcome = r.outcome]
    /\ inner_sync_request' = FALSE
    /\ UNCHANGED <<parent, pc, states, autonomy, id, autonomy_level, is_controlled,
                   last_deep_state_path, subscribed, stops>>
    /\ UNCHANGED <<preempt, entering, sync_drain, unanswered>>

\* _execute_current_state called on a root that has no active child (with an
\* active child the call is the one execute makes)
execute_current_state(res) ==
    /\ pc = "running"
    /\ sync_drain.pc = "idle"
    /\ current_state[Root] = NoNode
    /\ LET r == ExecuteCurrentState(Root, [cur |-> current_state, exc |-> last_exception], res)
       IN /\ current_state' = r.cur
          /\ last_exception' = r.exc
          /\ out' = [NoOut EXCEPT !.op = "_execute_current_state",
                                  !.raised = r.raised, !.outcome = r.outcome]
    /\ UNCHANGED <<parent, pc, states, autonomy, id, autonomy_level, is_controlled,
                   inner_sync_request, last_deep_state_path, subscribed, stops>>
    /\ UNCHANGED <<preempt, entering, sync_drain, unanswered>>

\* _entering after a tick: a state that is active has been entered, every
\* other state enters anew when it becomes active
Entering(cur) ==
    [n \in Nodes |-> IF n = Root THEN cur[Root] = NoNode ELSE cur[parent[n]] # n]

\* one tick of the driver: execute of the root, then the active-path snapshot
\* is renewed after a successful step
execute(res) ==
    /\ pc = "running"
    /\ sync_drain.pc = "idle"
    /\ LET r == ExecNode(Root, [cur |-> current_state, exc |-> last_exception], res)
       IN /\ current_state' = r.cur
          /\ last_exception' = r.exc
          /\ entering' = Entering(r.cur)
          /\ last_deep_state_path' = IF r.exc[Root] = "None"
                                     THEN PathOf(DeepState(r.cur, Root))
                                     ELSE last_deep_state_path
          /\ out' = [NoOut EXCEPT !.op = "execute",
                                  !.raised = r.raised, !.outcome = r.outcome]
    /\ UNCHANGED <<parent, pc, states, autonomy, id, autonomy_level, is_controlled,
                   inner_sync_request, subscribed, stops>>
    /\ UNCHANGED <<preempt, sync_drain, unanswered>>

\* the userdata view on_exit hands to the child: the userdata of the
\* container, the keys of the child and the remapping registered for it
UserData(c, k) == [reference |-> c, keys |-> k, remap |-> k]

RECURSIVE OnExit(_, _), OnExitKeepsChild(_, _)

OnExitKeepsChild(c, m) ==
    IF m.cur[c] = NoNode THEN m
    ELSE LET k == m.cur[c]
             m1 == [m EXCEPT !.entering[k] = TRUE,
                             !.calls = Append(@, [state |-> k, udata |-> UserData(c, k)])]
         IN IF IsContainer(k) THEN OnExitKeepsChild(k, m1) ELSE m1

\* on_exit(userdata) of container c: the active child is marked as entering
\* and exited (a nested container exits its own active child), then the
\* container has no active child
OnExit(c, m) ==
    IF m.cur[c] = NoNode THEN m
    ELSE LET k == m.cur[c]
             m1 == [m EXCEPT !.entering[k] = TRUE,
                             !.calls = Append(@, [state |-> k, udata |-> UserData(c, k)])]
             m2 == IF IsContainer(k) THEN OnExit(k, m1) ELSE m1
         IN [m2 EXCEPT !.cur[c] = NoNode]

\* on_exit of the root
on_exit ==
    /\ pc = "running"
    /\ sync_drain.pc = "idle"
    /\ LET m == OnExit(Root, [cur |-> current_state, entering |-> entering,
                              calls |-> <<>>])
       IN /\ current_state' = m.cur
          /\ entering' = m.entering
          /\ out' = [NoOut EXCEPT !.op = "on_exit", !.calls = m.calls]
    /\ UNCHANGED <<parent, pc, states, autonomy, id, autonomy_level, is_controlled,
                   last_exception, inner_sync_request, last_deep_state_path,
                   subscribed, stops>>
    /\ UNCHANGED <<preempt, sync_drain, unanswered>>

\* ------------------------------------------------------------- checksums
\* str.encode(): the UTF-8 bytes of a string of code points below 2048
RECURSIVE EncodeFrom(_, _)
EncodeFrom(s, i) ==
    IF i > Len(s) THEN <<>>
    ELSE (IF s[i] < 128 THEN <<s[i]>>
          ELSE <<192 + (s[i] \div 64), 128 + (s[i] % 64)>>)
         \o (CHOOSE rest \in {EncodeFrom(s, j) : j \in {i + 1}} : TRUE)

Encode(s) == CHOOSE bytes \in {EncodeFrom(cp, 1) : cp \in {s}} : TRUE

\* zlib.adler32: a starts at 1, b at 0; every byte adds to a, and a to b
\* (both modulo 65521); b is the high half of the result, a the low half
\* (the index, the sums after a byte and the bytes are bound as values)
RECURSIVE Adler(_, _, _, _)
Adler(bytes, i, a, b) ==
    IF i > Len(bytes) THEN Word(b, a)
    ELSE CHOOSE w \in {Adler(bytes, s[1], s[2], s[3]) :
                          s \in {<<i + 1, (a + bytes[i]) % 65521,
                                   (b + ((a + bytes[i]) % 65521)) % 65521>>}} : TRUE

adler32(bytes) == CHOOSE w \in {Adler(bs, 1, 1, 0) : bs \in {bytes}} : TRUE

\* w & 0x7fffffff
And7fffffff(w) == Word(w.hi % 32768, w.lo)

LatestStatusNoMask(path, beh_id) ==
    [behavior_id |-> IF beh_id # NoneId THEN beh_id ELSE 0,
     checksum |-> IF ~path.none THEN adler32(Encode(path.s)) ELSE Zero]

\* get_latest_status: the message built from the snapshot and the id
LatestStatus(path, beh_id) ==
    [behavior_id |-> IF beh_id # NoneId THEN beh_id ELSE 0,
     checksum |-> IF ~path.none THEN And7fffffff(adler32(Encode(path.s))) ELSE Zero]

get_latest_status ==
    /\ pc \in {"build", "running"}
    /\ LET msg == LatestStatus(last_deep_state_path, id)
       IN out' = [NoOut EXCEPT !.op = "get_latest_status",
                               !.behavior_id = msg.behavior_id,
                               !.checksum = msg.checksum]
    /\ UNCHANGED <<parent, pc, states, autonomy, id, autonomy_level, is_controlled,
                   current_state, last_exception, inner_sync_request,
                   last_deep_state_path, subscribed, stops>>
    /\ UNCHANGED <<preempt, entering, sync_drain, unanswered>>

\* ----------------------------------------------------------- explicit sync
\* self.name of the root, as confirm sets it
BehaviorName == "behavior"

SyncMsg(beh_id, checksum) ==
    [topic |-> "flexbe/mirror/sync", behavior_id |-> beh_id, checksum |-> checksum]
CommandFeedback(command, args) ==
    [topic |-> "flexbe/command_feedback", command |-> command, args |-> args]

process_sync_request_keeps_flag(deep_fails) ==
    /\ pc = "running"
    /\ sync_drain.pc = "idle"
    /\ IF inner_sync_request
       THEN LET deep_state == DeepState(current_state, Root)
                checksum == IF ~deep_fails /\ deep_state # NoNode
                            THEN And7fffffff(adler32(Encode(Path(deep_state))))
                            ELSE Zero
            IN /\ inner_sync_request' = ~deep_fails /\ deep_state = NoNode
               /\ out' = [NoOut EXCEPT !.op = "process_sync_request",
                                       !.pubs = <<SyncMsg(id, checksum),
                                                  CommandFeedback("sync", <<>>)>>]
       ELSE /\ ~deep_fails
            /\ inner_sync_request' = inner_sync_request
            /\ out' = [NoOut EXCEPT !.op = "process_sync_request"]
    /\ unanswered' = (unanswered /\ ~inner_sync_request)
    /\ UNCHANGED <<parent, pc, states, autonomy, id, autonomy_level, is_controlled,
                   current_state, last_exception, last_deep_state_path,
                   subscribed, stops>>
    /\ UNCHANGED <<preempt, entering, sync_drain>>

\* process_sync_request; deep_fails: get_deep_state raises
process_sync_request(deep_fails) ==
    /\ pc = "running"
    /\ sync_drain.pc = "idle"
    /\ IF inner_sync_request
       THEN LET deep_state == DeepState(current_state, Root)
                checksum == IF ~deep_fails /\ deep_state # NoNode
                            THEN And7fffffff(adler32(Encode(Path(deep_state))))
                            ELSE Zero
            IN /\ inner_sync_request' = FALSE
               /\ out' = [NoOut EXCEPT !.op = "process_sync_request",
                                       !.pubs = <<SyncMsg(id, checksum),
                                                  CommandFeedback("sync", <<>>)>>]
       ELSE /\ ~deep_fails
            /\ inner_sync_request' = inner_sync_request
            /\ out' = [NoOut EXCEPT !.op = "process_sync_request"]
    /\ unanswered' = (unanswered /\ ~inner_sync_request)
    /\ UNCHANGED <<parent, pc, states, autonomy, id, autonomy_level, is_controlled,
                   current_state, last_exception, last_deep_state_path,
                   subscribed, stops>>
    /\ UNCHANGED <<preempt, entering, sync_drain>>

\* process_sync_request statement by statement, for command callbacks that
\* run on a thread of their own: the test of the flag (line 156)
process_sync_request_test ==
    /\ pc = "running"
    /\ sync_drain.pc = "idle"
    /\ IF inner_sync_request
       THEN /\ sync_drain' = [sync_drain EXCEPT !.pc = "tested"]
            /\ out' = out
       ELSE /\ sync_drain' = sync_drain
            /\ out' = [NoOut EXCEPT !.op = "process_sync_request"]
    /\ UNCHANGED <<parent, pc, states, autonomy, id, autonomy_level, is_controlled,
                   current_state, last_exception, inner_sync_request,
                   last_deep_state_path, subscribed, stops>>
    /\ UNCHANGED <<preempt, entering, unanswered>>

\* the active path is read and its checksum put in the message (lines 160-177)
process_sync_request_read(deep_fails) ==
    /\ sync_drain.pc = "tested"
    /\ LET deep_state == DeepState(current_state, Root)
           checksum == IF ~deep_fails /\ deep_state # NoNode
                       THEN And7fffffff(adler32(Encode(Path(deep_state))))
                       ELSE Zero
       IN sync_drain' = [pc |-> "read", checksum |-> checksum, stale |-> FALSE]
    /\ UNCHANGED <<parent, pc, states, autonomy, id, autonomy_level, is_controlled,
                   current_state, last_exception, inner_sync_request,
                   last_deep_state_path, subscribed, stops>>
    /\ UNCHANGED <<preempt, entering, unanswered, out>>

\* the flag is cleared (line 179)
process_sync_request_clear ==
    /\ sync_drain.pc = "read"
    /\ inner_sync_request' = FALSE
    /\ sync_drain' = [sync_drain EXCEPT !.pc = "cleared"]
    /\ UNCHANGED <<parent, pc, states, autonomy, id, autonomy_level, is_controlled,
                   current_state, last_exception, last_deep_state_path,
                   subscribed, stops>>
    /\ UNCHANGED <<preempt, entering, unanswered, out>>

\* the message and the acknowledgement are published (lines 180-181); the
\* requests that arrived before the path was read are answered
process_sync_request_publish ==
    /\ sync_drain.pc = "cleared"
    /\ out' = [NoOut EXCEPT !.op = "process_sync_request",
                            !.pubs = <<SyncMsg(id, sync_drain.checksum),
                                       CommandFeedback("sync", <<>>)>>]
    /\ unanswered' = (sync_drain.stale \/ inner_sync_request)
    /\ sync_drain' = NoDrain
    /\ UNCHANGED <<parent, pc, states, autonomy, id, autonomy_level, is_controlled,
                   current_state, last_exception, inner_sync_request,
                   last_deep_state_path, subscribed, stops>>
    /\ UNCHANGED <<preempt, entering>>

\* ------------------------------------------------------ operator callbacks
\* _preempt_cb(msg): the stop request
PreemptCb(requested) == TRUE

set_autonomy_level_unsigned(level) ==
    /\ Subscription("flexbe/command/autonomy", Root) \in subscribed
    /\ autonomy_level' = level
    /\ out' = [NoOut EXCEPT !.op = "_set_autonomy_level", !.args = <<level>>,
                            !.pubs = <<CommandFeedback("autonomy", <<>>)>>]
    /\ UNCHANGED <<parent, pc, states, autonomy, id, is_controlled, current_state,
                   last_exception, inner_sync_request, last_deep_state_path,
                   subscribed, stops>>
    /\ UNCHANGED <<preempt, entering, sync_drain, unanswered>>

\* _set_autonomy_level(msg): a negative level requests a stop, any other level
\* is written; the acknowledgement is published in both cases
set_autonomy_level(level) ==
    /\ Subscription("flexbe/command/autonomy", Root) \in subscribed
    /\ IF level < 0
       THEN /\ preempt' = PreemptCb(preempt)
            /\ autonomy_level' = autonomy_level
       ELSE /\ autonomy_level' = level
            /\ preempt' = preempt
    /\ out' = [NoOut EXCEPT !.op = "_set_autonomy_level", !.args = <<level>>,
                            !.pubs = <<CommandFeedback("autonomy", <<>>)>>]
    /\ UNCHANGED <<parent, pc, states, autonomy, id, is_controlled, current_state,
                   last_exception, inner_sync_request, last_deep_state_path,
                   subscribed, stops>>
    /\ UNCHANGED <<entering, sync_drain, unanswered>>

\* a request arrives: a drain in flight that has read the active path already
\* read it before this request
Requested(d) == IF d.pc = "read" THEN [d EXCEPT !.stale = TRUE] ELSE d

sync_callback ==
    /\ Subscription("flexbe/command/sync", Root) \in subscribed
    /\ inner_sync_request' = TRUE
    /\ unanswered' = TRUE
    /\ sync_drain' = Requested(sync_drain)
    /\ out' = [NoOut EXCEPT !.op = "_sync_callback"]
    /\ UNCHANGED <<parent, pc, states, autonomy, id, autonomy_level, is_controlled,
                   current_state, last_exception, last_deep_state_path,
                   subscribed, stops>>
    /\ UNCHANGED <<preempt, entering>>

attach_callback_without_sync(level) ==
    /\ Subscription("flexbe/command/attach", Root) \in subscribed
    /\ autonomy_level' = level
    /\ is_controlled' = SetControl(is_controlled, Root, TRUE)
    /\ out' = [NoOut EXCEPT !.op = "_attach_callback", !.args = <<level>>,
                            !.pubs = <<CommandFeedback("attach", <<BehaviorName>>)>>]
    /\ UNCHANGED <<parent, pc, states, autonomy, id, current_state, last_exception,
                   last_deep_state_path, subscribed, stops, inner_sync_request>>
    /\ UNCHANGED <<preempt, entering, sync_drain, unanswered>>

attach_callback(level) ==
    /\ Subscription("flexbe/command/attach", Root) \in subscribed
    /\ autonomy_level' = level
    /\ is_controlled' = SetControl(is_controlled, Root, TRUE)
    /\ inner_sync_request' = TRUE
    /\ unanswered' = TRUE
    /\ sync_drain' = Requested(sync_drain)
    /\ out' = [NoOut EXCEPT !.op = "_attach_callback", !.args = <<level>>,
                            !.pubs = <<CommandFeedback("attach", <<BehaviorName>>)>>]
    /\ UNCHANGED <<parent, pc, states, autonomy, id, current_state, last_exception,
                   last_deep_state_path, subscribed, stops>>
    /\ UNCHANGED <<preempt, entering>>

\* ------------------------------------------------- structure description
\* d[key] of the autonomy argument: TypeError on None, KeyError on a missing key
Subscript(arg, key) ==
    IF arg.none THEN [raised |-> "TypeError", value |-> 0]
    ELSE IF key \notin DOMAIN arg.d THEN [raised |-> "KeyError", value |-> 0]
    ELSE [raised |-> "None", value |-> arg.d[key]]

Container(n) ==
    [path |-> Path(n), children |-> <<>>, outcomes |-> <<>>, transitions |-> <<>>,
     autonomy |-> <<>>]

RECURSIVE AddToStructureMsg(_, _), AddChildren(_, _, _)

\* the loop over self._states, from the i-th child on; r.containers is the
\* message so far
AddChildren(c, i, r) ==
    IF r.raised # "None" \/ i > Len(states[c]) THEN r
    ELSE LET state == states[c][i]
             at == Len(r.containers) + 1
             r1 == IF IsContainer(state) THEN AddToStructureMsg(state, r)
                   ELSE [r EXCEPT !.containers = Append(@, Container(state))]
             looked == [j \in DOMAIN Outcomes(state) |->
                           Subscript(autonomy[c][state], Outcomes(state)[j])]
             bad == {j \in DOMAIN looked : looked[j].raised # "None"}
             first == CHOOSE j \in bad : \A k \in bad : j <= k
         IN IF r1.raised # "None" THEN r1
            ELSE IF bad # {} THEN [r1 EXCEPT !.raised = looked[first].raised]
            ELSE AddChildren(c, i + 1,
                    [r1 EXCEPT !.containers[at].outcomes = Outcomes(state),
                               !.containers[at].transitions =
                                   [j \in DOMAIN Outcomes(state) |->
                                       Target(state, Outcomes(state)[j])],
                               !.containers[at].autonomy =
                                   [j \in DOMAIN Outcomes(state) |-> looked[j].value]])

\* _add_to_structure_msg of container c: its own entry, then its children
AddToStructureMsg(c, r) ==
    AddChildren(c, 1,
        [r EXCEPT !.containers =
            Append(@, [Container(c) EXCEPT !.children =
                          [i \in DOMAIN states[c] |-> Name(states[c][i])]])])

\* _build_structure_msg of the root
BuildStructureMsg ==
    LET r == AddToStructureMsg(Root, [raised |-> "None", containers |-> <<>>])
    IN IF r.raised # "None" THEN r
       ELSE [r EXCEPT !.containers[1].outcomes = Outcomes(Root)]

StructureMsg(beh_id, containers) ==
    [topic |-> "flexbe/mirror/structure", behavior_id |-> beh_id,
     containers |-> containers]

mirror_structure_callback ==
    /\ Subscription("flexbe/request_mirror_structure", Root) \in subscribed
    /\ LET r == BuildStructureMsg
       IN IF r.raised # "None"
          THEN /\ out' = [NoOut EXCEPT !.op = "_mirror_structure_callback",
                                       !.raised = r.raised]
               /\ is_controlled' = is_controlled
          ELSE /\ out' = [NoOut EXCEPT !.op = "_mirror_structure_callback",
                                       !.pubs = <<StructureMsg(id, r.containers)>>]
               /\ is_controlled' = SetControl(is_controlled, Root, TRUE)
    /\ UNCHANGED <<parent, pc, states, autonomy, id, autonomy_level, current_state,
                   last_exception, inner_sync_request, last_deep_state_path,
                   subscribed, stops>>
    /\ UNCHANGED <<preempt, entering, sync_drain, unanswered>>

\* ------------------------------------------------------------ state events
RECURSIVE NotifyStop(_, _), StopChildren(_, _, _)

\* the loop over self._states of _notify_stop, from the i-th child on
StopChildren(c, i, st) ==
    IF i > Len(states[c]) THEN st
    ELSE LET state == states[c][i]
             s1 == IF IsContainer(state)
                   THEN NotifyStop(state, [st EXCEPT !.stops[state] = @ + 1])
                   ELSE [st EXCEPT !.stops[state] = @ + 1]
             s2 == IF s1.ctl[state]
                   THEN [s1 EXCEPT !.ctl = SetControl(s1.ctl, state, FALSE)]
                   ELSE s1
         IN StopChildren(c, i + 1, s2)

\* _notify_stop of container c: its own on_stop, then its children
NotifyStop(c, st) == StopChildren(c, 1, [st EXCEPT !.stops[c] = @ + 1])

destroy_keeps_structure_topic ==
    /\ pc = "running"
    /\ LET st == NotifyStop(Root, [stops |-> stops, ctl |-> is_controlled])
       IN /\ stops' = st.stops
          /\ is_controlled' = SetControl(st.ctl, Root, FALSE)
    /\ subscribed' = subscribed \ {Subscription(t, Root) :
                                       t \in CommandTopics \ {"flexbe/request_mirror_structure"}}
    /\ pc' = "destroyed"
    /\ out' = [NoOut EXCEPT !.op = "destroy"]
    /\ UNCHANGED <<parent, states, autonomy, id, autonomy_level, current_state,
                   last_exception, inner_sync_request, last_deep_state_path>>
    /\ UNCHANGED <<preempt, entering, sync_drain, unanswered>>

destroy ==
    /\ pc = "running"
    /\ LET st == NotifyStop(Root, [stops |-> stops, ctl |-> is_controlled])
       IN /\ stops' = st.stops
          /\ is_controlled' = SetControl(st.ctl, Root, FALSE)
    /\ subscribed' = subscribed \ {Subscription(t, Root) : t \in CommandTopics}
    /\ pc' = "destroyed"
    /\ out' = [NoOut EXCEPT !.op = "destroy"]
    /\ UNCHANGED <<parent, states, autonomy, id, autonomy_level, current_state,
                   last_exception, inner_sync_request, last_deep_state_path>>
    /\ UNCHANGED <<preempt, entering, sync_drain, unanswered>>

CommandLevels == (0 .. MaxLevel) \cup {NoControlLevel}

Next ==
    \/ \E n \in Nodes : \E kind \in ArgKinds : add(n, kind)
    \/ \E b \in BehIds : confirm(b)
    \/ \E res \in LeafResults : execute_current_state(res)
    \/ \E res \in LeafResults : execute(res)
    \/ get_latest_status
    \/ \E deep_fails \in BOOLEAN : process_sync_request(deep_fails)
    \/ \E level \in CommandLevels : set_autonomy_level(level)
    \/ sync_callback
    \/ \E level \in CommandLevels : attach_callback(level)
    \/ mirror_structure_callback
    \/ destroy

Spec == Init /\ [][Next]_vars

\* the gate alone: trees are built and confirmed, the level is commanded and
\* the gate is asked about every label and outcome
NextGate ==
    \/ \E n \in Nodes : \E kind \in ArgKinds : add(n, kind)
    \/ \E b \in BehIds : confirm(b)
    \/ \E level \in CommandLevels : set_autonomy_level(level)
    \/ \E c \in Nodes : \E label \in GateLabels : \E outcome \in GateOutcomes :
          is_transition_allowed_call(c, label, outcome)

SpecGate == Init /\ [][NextGate]_vars

\* the command callbacks called with any message: the levels of the
\* subscribed topic (UInt8) and a negative one
SignedLevels == CommandLevels \cup {0 - 1}

NextCommands ==
    \/ \E n \in Nodes : \E kind \in ArgKinds : add(n, kind)
    \/ \E b \in BehIds : confirm(b)
    \/ \E level \in SignedLevels : set_autonomy_level(level)
    \/ sync_callback
    \/ \E level \in CommandLevels : attach_callback(level)
    \/ mirror_structure_callback
    \/ \E deep_fails \in BOOLEAN : process_sync_request(deep_fails)
    \/ destroy

SpecCommands == Init /\ [][NextCommands]_vars

\* execution alone: ticks of the driver and on_exit of the root
NextExit ==
    \/ \E n \in Nodes : \E kind \in ArgKinds : add(n, kind)
    \/ \E b \in BehIds : confirm(b)
    \/ \E res \in LeafResults : execute(res)
    \/ on_exit

SpecExit == Init /\ [][NextExit]_vars

\* command callbacks on a thread of their own, concurrent to the driver loop
\* that runs an execution step or a drain
NextRace ==
    \/ \E n \in Nodes : add(n, "full")
    \/ \E b \in BehIds : confirm(b)
    \/ \E res \in LeafResults : execute(res)
    \/ process_sync_request_test
    \/ \E deep_fails \in BOOLEAN : process_sync_request_read(deep_fails)
    \/ process_sync_request_clear
    \/ process_sync_request_publish
    \/ sync_callback
    \/ \E level \in CommandLevels : attach_callback(level)

SpecRace == Init /\ [][NextRace]_vars

\* the driver loop keeps draining: process_sync_request is called again and
\* again for as long as a behavior with complete autonomy maps runs
NextLive ==
    \/ \E n \in Nodes : add(n, "full")
    \/ \E b \in BehIds : confirm(b)
    \/ \E res \in LeafResults : execute_current_state(res)
    \/ \E res \in LeafResults : execute(res)
    \/ \E deep_fails \in BOOLEAN : process_sync_request(deep_fails)
    \/ \E level \in CommandLevels : set_autonomy_level(level)
    \/ sync_callback
    \/ \E level \in CommandLevels : attach_callback(level)
    \/ mirror_structure_callback
    \/ destroy

SpecLive ==
    /\ Init
    /\ [][NextLive]_vars
    /\ WF_vars(\E deep_fails \in BOOLEAN : process_sync_request(deep_fails))

\* ------------------------------------------------------------------ claims
\* the underlying step of a direct call, and of the call execute makes
Machine == [cur |-> current_state, exc |-> last_exception]
DirectStep(res) == SuperExecuteCurrentState(Root, Machine, res)
TickStep(res) == SuperExecuteCurrentState(Root, Entered(Root, Machine), res)

\* C1: whatever the state of the container (an active child or none) and
\* whatever the underlying step raises, _execute_current_state raises nothing,
\* returns None, keeps the exception in _last_exception and leaves the active
\* child as it was.
C1_FailureNeverPropagates ==
    [][\A res \in LeafResults :
         /\ (execute_current_state(res) /\ DirectStep(res).raised # "None") =>
               /\ out'.raised = "None"
               /\ out'.outcome = "None"
               /\ last_exception'[Root] = DirectStep(res).raised
               /\ current_state'[Root] = current_state[Root]
         /\ (execute(res) /\ TickStep(res).raised # "None") =>
               /\ out'.raised = "None"
               /\ out'.outcome = "None"
               /\ last_exception'[Root] = TickStep(res).raised
               /\ current_state'[Root] = Entered(Root, Machine).cur[Root]]_vars

\* C2: _last_exception of the root is set exactly when its most recent step
\* failed: a step that succeeds resets it and returns the outcome of the
\* underlying step, a step that fails sets it, and nothing else writes it.
TracksStep(u) ==
    /\ (last_exception'[Root] # "None") <=> (u.raised # "None")
    /\ u.raised = "None" => (out'.raised = "None" /\ out'.outcome = u.outcome)

C2_LastExceptionTracksLastStep ==
    [][CASE out'.op = "_execute_current_state" ->
               \A res \in LeafResults :
                   execute_current_state(res) => TracksStep(DirectStep(res))
          [] out'.op = "execute" ->
               \A res \in LeafResults : execute(res) => TracksStep(TickStep(res))
          [] OTHER -> last_exception' = last_exception]_vars

\* a step that succeeded with an outcome while no exception is kept
C2_Witness ==
    /\ out.op = "execute"
    /\ out.outcome = "failed"
    /\ last_exception[Root] = "None"

\* the call the last gate query made
AskedContainer == out.args[1]
AskedLabel == out.args[2]
AskedOutcome == out.args[3]
AskedHasMap ==
    /\ AskedLabel \in DOMAIN autonomy[AskedContainer]
    /\ ~autonomy[AskedContainer][AskedLabel].none
AskedIsRegistered ==
    /\ AskedHasMap
    /\ AskedOutcome \in DOMAIN autonomy[AskedContainer][AskedLabel].d

\* C3: for a label and outcome the autonomy map registers,
\* is_transition_allowed is true exactly when the required level is strictly
\* below the autonomy level.
C3_AllowedIffRequiredBelowLevel ==
    (out.op = "is_transition_allowed" /\ AskedIsRegistered) =>
        /\ out.raised = "None"
        /\ out.allowed <=>
              (autonomy[AskedContainer][AskedLabel].d[AskedOutcome] < autonomy_level)

\* a registered outcome is denied at a level equal to its required level
C3_Witness ==
    /\ out.op = "is_transition_allowed"
    /\ AskedIsRegistered
    /\ autonomy[AskedContainer][AskedLabel].d[AskedOutcome] = autonomy_level
    /\ ~out.allowed

\* C4 as stated: for a pair without an entry in the autonomy map,
\* is_transition_allowed raises nothing and returns false at every level.
C4_MissingEntryIsDenied ==
    (out.op = "is_transition_allowed" /\ ~AskedIsRegistered) =>
        (out.raised = "None" /\ ~out.allowed)

\* C4 as amended: an outcome missing from the map of a registered child has
\* the required level -1, so it is allowed at every level that is not
\* negative; a child added without a map raises AttributeError and an unknown
\* label raises KeyError.
C4_MissingEntryIsAllowedOrRaises ==
    (out.op = "is_transition_allowed" /\ ~AskedIsRegistered) =>
        IF AskedLabel \notin DOMAIN autonomy[AskedContainer]
        THEN out.raised = "KeyError"
        ELSE IF autonomy[AskedContainer][AskedLabel].none
        THEN out.raised = "AttributeError"
        ELSE out.raised = "None" /\ (out.allowed <=> (autonomy_level >= 0))

\* an outcome the map of a registered child lacks is allowed at level 0
C4_Witness ==
    /\ out.op = "is_transition_allowed"
    /\ AskedHasMap
    /\ ~AskedIsRegistered
    /\ autonomy_level = 0
    /\ out.allowed

\* C5: a transition the gate allows at the current level is allowed at every
\* higher level.
C5_GateMonotoneInLevel ==
    (out.op = "is_transition_allowed" /\ out.raised = "None" /\ out.allowed) =>
        \A level \in Levels :
            level > autonomy_level =>
                IsAllowedAt(AskedContainer, AskedLabel, AskedOutcome, level).value

\* a registered outcome with a required level above 0 is allowed below the
\* highest level
C5_Witness ==
    /\ out.op = "is_transition_allowed"
    /\ AskedIsRegistered
    /\ autonomy[AskedContainer][AskedLabel].d[AskedOutcome] > 0
    /\ out.allowed
    /\ autonomy_level < NoControlLevel

\* C6: _notify_stop of the root invokes on_stop of every descendant exactly
\* once and leaves no descendant remotely controlled.
C6_EveryDescendantStoppedOnce ==
    [][destroy =>
         LET st == NotifyStop(Root, [stops |-> stops, ctl |-> is_controlled])
         IN \A n \in Nodes \ {Root} : st.stops[n] = stops[n] + 1 /\ ~st.ctl[n]]_vars

\* the nodes of the subtree of n, every parent before its children, the
\* children in the order they were added
RECURSIVE Preorder(_), PreorderFrom(_, _)
PreorderFrom(c, i) ==
    IF i > Len(states[c]) THEN <<>> ELSE Preorder(states[c][i]) \o PreorderFrom(c, i + 1)
Preorder(n) == <<n>> \o PreorderFrom(n, 1)

\* entry e describes node n with the transitions and required levels its
\* parent registered for every declared outcome
DescribesNode(e, n) ==
    /\ e.path = Path(n)
    /\ e.outcomes = Outcomes(n)
    /\ IF n = Root
       THEN e.transitions = <<>> /\ e.autonomy = <<>>
       ELSE /\ Len(e.transitions) = Len(e.outcomes)
            /\ Len(e.autonomy) = Len(e.outcomes)
            /\ \A j \in DOMAIN e.outcomes :
                  /\ e.transitions[j] = Target(n, e.outcomes[j])
                  /\ ~autonomy[parent[n]][n].none
                  /\ e.outcomes[j] \in DOMAIN autonomy[parent[n]][n].d
                  /\ e.autonomy[j] = autonomy[parent[n]][n].d[e.outcomes[j]]

DescribesTree(containers) ==
    /\ Len(containers) = Len(Preorder(Root))
    /\ \A i \in DOMAIN containers : DescribesNode(containers[i], Preorder(Root)[i])

\* C7: for every tree _build_structure_msg yields one entry per node, parents
\* before children, every entry but the root's with the transition and the
\* required level of each declared outcome.
C7_StructureDescribesEveryNode ==
    out.op = "_mirror_structure_callback" =>
        /\ out.raised = "None"
        /\ Len(out.pubs) = 1
        /\ DescribesTree(out.pubs[1].containers)

\* C8: add fails, and registers nothing, when the keys of the autonomy map
\* are not the declared outcomes of the state (or the map is omitted), so the
\* structure description of a confirmed tree never fails on a missing entry.
C8_AddRejectsAutonomyMismatch ==
    /\ [][\A n \in Nodes : \A kind \in ArgKinds :
            (/\ add(n, kind)
             /\ \/ AutonomyArg(n, kind).none
                \/ DOMAIN AutonomyArg(n, kind).d # SeqToSet(Outcomes(n)))
            => (states' = states /\ autonomy' = autonomy /\ out'.raised # "None")]_vars
    /\ [](out.op = "_mirror_structure_callback" => out.raised = "None")

\* the Adler-32 sums in closed form: a is 1 plus the sum of the bytes, b is
\* the number of bytes plus every byte times the count of bytes from it on
RECURSIVE SumBytes(_, _), SumWeighted(_, _)
SumBytes(bytes, i) == IF i > Len(bytes) THEN 0 ELSE bytes[i] + SumBytes(bytes, i + 1)
SumWeighted(bytes, i) ==
    IF i > Len(bytes) THEN 0
    ELSE (Len(bytes) - i + 1) * bytes[i] + SumWeighted(bytes, i + 1)
AdlerLow(bytes) == (1 + SumBytes(bytes, 1)) % 65521
AdlerHigh(bytes) == (Len(bytes) + SumWeighted(bytes, 1)) % 65521

\* C9: the status is a function of the snapshot and the id: the checksum is
\* 0 without a snapshot, else the Adler-32 of the bytes of the path with the
\* top bit cleared, so it lies in 0 .. 2^31-1; the behavior id is the
\* confirmed id, or 0 before confirm.
C9_StatusIsChecksumOfSnapshot ==
    out.op = "get_latest_status" =>
        /\ out.checksum.hi \in 0 .. 32767
        /\ out.checksum.lo \in 0 .. 65535
        /\ IF last_deep_state_path.none
           THEN out.checksum = Zero
           ELSE /\ out.checksum.lo = AdlerLow(Encode(last_deep_state_path.s))
                /\ out.checksum.hi = AdlerHigh(Encode(last_deep_state_path.s)) % 32768
        /\ out.behavior_id = IF pc = "build" THEN 0 ELSE id

\* the status of a confirmed behavior whose snapshot has an Adler-32 with the
\* top bit set
C9_Witness ==
    /\ out.op = "get_latest_status"
    /\ ~last_deep_state_path.none
    /\ AdlerHigh(Encode(last_deep_state_path.s)) >= 32768
    /\ out.behavior_id = id
    /\ id # 0

\* C10: process_sync_request with the flag set clears it and publishes one
\* sync message, then one acknowledgement of "sync"; the checksum is 0 when
\* there is no deep active state or resolving it raises; with the flag not
\* set nothing is published and no state changes.
C10_SyncDrain ==
    [][\A deep_fails \in BOOLEAN :
         (out'.op = "process_sync_request" /\ process_sync_request(deep_fails)) =>
            IF inner_sync_request
            THEN /\ ~inner_sync_request'
                 /\ Len(out'.pubs) = 2
                 /\ out'.pubs[1].topic = "flexbe/mirror/sync"
                 /\ out'.pubs[2] = CommandFeedback("sync", <<>>)
                 /\ (deep_fails \/ DeepState(current_state, Root) = NoNode)
                       => out'.pubs[1].checksum = Zero
            ELSE /\ out'.pubs = <<>>
                 /\ UNCHANGED <<parent, pc, states, autonomy, id, autonomy_level,
                                is_controlled, current_state, last_exception,
                                inner_sync_request, last_deep_state_path,
                                subscribed, stops>>]_vars

\* a drain that found no deep active state and still published both messages
C10_Witness ==
    /\ out.op = "process_sync_request"
    /\ Len(out.pubs) = 2
    /\ out.pubs[1].checksum = Zero
    /\ DeepState(current_state, Root) = NoNode
    /\ ~inner_sync_request

\* C11: after an attach command with level n is handled, whatever the state
\* before, the autonomy level is n, the root is remotely controlled, an
\* explicit sync is pending and one acknowledgement naming "attach" with the
\* name of the container was published; the request stays pending until a
\* drain, and that drain publishes a sync message and clears the flag.
C11_AttachThenDrain ==
    /\ [](out.op = "_attach_callback" =>
            /\ autonomy_level = out.args[1]
            /\ is_controlled[Root]
            /\ inner_sync_request
            /\ out.pubs = <<CommandFeedback("attach", <<BehaviorName>>)>>)
    /\ [][inner_sync_request =>
            IF out'.op = "process_sync_request"
            THEN /\ ~inner_sync_request'
                 /\ Len(out'.pubs) = 2
                 /\ out'.pubs[1].topic = "flexbe/mirror/sync"
            ELSE inner_sync_request']_vars

\* an attach with level 0 handled while a leaf is active
C11_Witness ==
    /\ out.op = "_attach_callback"
    /\ out.args = <<0>>
    /\ autonomy_level = 0
    /\ inner_sync_request
    /\ current_state[Root] # NoNode
    /\ \A n \in Nodes : is_controlled[n]

\* C12: handling a structure request, in any state (also with remote control
\* disabled), publishes the structure description with an entry for every
\* node and leaves the root remotely controlled; the autonomy level and the
\* pending-sync flag are not changed by it.
C12_StructureRequestEnablesControl ==
    /\ [](out.op = "_mirror_structure_callback" =>
            /\ out.raised = "None"
            /\ Len(out.pubs) = 1
            /\ out.pubs[1].topic = "flexbe/mirror/structure"
            /\ Len(out.pubs[1].containers) = Cardinality(Nodes)
            /\ is_controlled[Root])
    /\ [][out'.op = "_mirror_structure_callback" =>
            /\ autonomy_level' = autonomy_level
            /\ inner_sync_request' = inner_sync_request]_vars

\* the four command callbacks
CallbackOps == {"_set_autonomy_level", "_sync_callback", "_attach_callback",
                "_mirror_structure_callback"}

\* C13: no command callback does protocol work on the delivery path: handling
\* a command publishes nothing, writes no autonomy level and changes no remote
\* control; it only sets flags that the drain of the main loop acts on.
C13_CallbacksOnlySetFlags ==
    [][out'.op \in CallbackOps =>
         /\ out'.pubs = <<>>
         /\ autonomy_level' = autonomy_level
         /\ is_controlled' = is_controlled]_vars

\* C14: an autonomy command with a negative level leaves the autonomy level
\* as it was and requests the stop; a command with any other level writes
\* exactly that level and requests nothing; both publish exactly one
\* acknowledgement naming "autonomy".
C14_NegativeLevelPreempts ==
    [][\A level \in SignedLevels :
         (out'.op = "_set_autonomy_level" /\ out'.args = <<level>>) =>
            /\ autonomy_level' = IF level < 0 THEN autonomy_level ELSE level
            /\ preempt' = IF level < 0 THEN TRUE ELSE preempt
            /\ out'.pubs = <<CommandFeedback("autonomy", <<>>)>>]_vars

\* a negative level handled after the level was commanded to 0
C14_Witness ==
    /\ out.op = "_set_autonomy_level"
    /\ out.args = <<0 - 1>>
    /\ preempt
    /\ autonomy_level = 0

\* C15: the sync message of a drain carries the behavior id and the checksum
\* that get_latest_status returns at that moment, in every reachable state.
C15_SyncMessageIsLatestStatus ==
    (out.op = "process_sync_request" /\ Len(out.pubs) = 2) =>
        /\ out.pubs[1].behavior_id = LatestStatus(last_deep_state_path, id).behavior_id
        /\ out.pubs[1].checksum = LatestStatus(last_deep_state_path, id).checksum

\* a drain has just published its sync message
SyncPublished ==
    /\ out.op = "process_sync_request"
    /\ Len(out.pubs) = 2
    /\ out.pubs[1].topic = "flexbe/mirror/sync"

\* C16: while the driver loop keeps draining, every explicit sync request (a
\* sync or an attach command) is eventually followed by a published sync
\* message; the pending-sync flag is set by those two callbacks only and
\* cleared by process_sync_request only, never by an execution step or by
\* another command.
C16_RequestEventuallySynced ==
    /\ inner_sync_request ~> (SyncPublished \/ pc = "destroyed")
    /\ [][inner_sync_request' # inner_sync_request =>
            IF inner_sync_request'
            THEN out'.op \in {"_sync_callback", "_attach_callback"}
            ELSE out'.op = "process_sync_request"]_vars

\* a request was drained and answered while a leaf is active
C16_Witness ==
    /\ SyncPublished
    /\ ~inner_sync_request
    /\ DeepState(current_state, Root) # NoNode
    /\ out.pubs[1].checksum # Zero

\* C17: whenever the autonomy level is 255, the confirmed root is not
\* remotely controlled: confirm enables remote control only at another level,
\* and every later autonomy, attach and structure-request command keeps it so.
C17_Level255MeansNoControl ==
    (pc = "running" /\ autonomy_level = NoControlLevel) => ~is_controlled[Root]

\* the subscriptions registered under the identity of the root
OwnSubscriptions == {s \in subscribed : s.inst_id = Root}
OwnCommandSubscriptions == {Subscription(t, Root) : t \in CommandTopics}

\* C18: confirm subscribes exactly the four command topics under the identity
\* of this instance, and destroy unsubscribes exactly those four under the
\* same identity: after destroy on_stop of the root has run, the root is not
\* remotely controlled and no subscription of this instance remains, while
\* the autonomy level and the subscriptions of other instances are as before.
C18_SubscriptionsOfTheInstance ==
    /\ [](out.op = "confirm" => OwnSubscriptions = OwnCommandSubscriptions)
    /\ [](pc = "destroyed" =>
            /\ OwnSubscriptions = {}
            /\ ~is_controlled[Root]
            /\ stops[Root] > 0)
    /\ [][out'.op = "confirm" =>
            subscribed' = subscribed \cup OwnCommandSubscriptions]_vars
    /\ [][out'.op = "destroy" =>
            /\ OwnSubscriptions = OwnCommandSubscriptions
            /\ subscribed' = subscribed \ OwnCommandSubscriptions
            /\ stops'[Root] = stops[Root] + 1
            /\ autonomy_level' = autonomy_level]_vars

\* a behavior destroyed at a commanded level while it was remotely controlled
\* and another instance is subscribed
C18_Witness ==
    /\ pc = "destroyed"
    /\ out.op = "destroy"
    /\ autonomy_level = 0
    /\ stops[Root] = 1
    /\ subscribed = {Subscription(t, OtherInstance) : t \in CommandTopics}

\* C19: with the callbacks on a thread of their own, a sync request that
\* arrives while process_sync_request runs is not lost: once no drain is in
\* flight, a request that no drain has read the active path for is still
\* pending, so a later drain answers it.
C19_NoRequestLost ==
    (sync_drain.pc = "idle" /\ unanswered) => inner_sync_request

\* the state on_exit works on, and the calls of on_exit it makes for child k
ExitState(cur, ent) == [cur |-> cur, entering |-> ent, calls |-> <<>>]
ExitCalls(calls, k) == {i \in DOMAIN calls : calls[i].state = k}

\* C20: on_exit of a container with an active child invokes on_exit of that
\* child exactly once, with the userdata view remapped for the child, marks
\* the child as entering and leaves the container without an active child;
\* without an active child it does nothing, so a repeated on_exit has no
\* further effect.
C20_OnExitExitsActiveChildOnce ==
    [][out'.op = "on_exit" =>
         /\ \A c \in Containers :
               IF current_state[c] = NoNode
               THEN /\ current_state'[c] = NoNode
                    /\ \A i \in DOMAIN out'.calls : out'.calls[i].udata.reference # c
               ELSE /\ Cardinality(ExitCalls(out'.calls, current_state[c])) = 1
                    /\ \A i \in ExitCalls(out'.calls, current_state[c]) :
                          out'.calls[i].udata = UserData(c, current_state[c])
                    /\ entering'[current_state[c]]
                    /\ current_state'[c] = NoNode
         /\ current_state[Root] = NoNode =>
               (out'.calls = <<>> /\ current_state' = current_state
                                  /\ entering' = entering)
         /\ OnExit(Root, ExitState(current_state', entering'))
               = ExitState(current_state', entering')]_vars

\* on_exit of a root whose active child was a nested container with an
\* active leaf
C20_Witness ==
    /\ out.op = "on_exit"
    /\ Len(out.calls) = 2
    /\ IsContainer(out.calls[1].state)
    /\ out.calls[2].udata.reference = out.calls[1].state
    /\ \A c \in Nodes : current_state[c] = NoNode
    /\ entering[out.calls[2].state]
====
